---------------------------- MODULE Spec2Model ----------------------------
(***************************************************************************)
(* A model of scripts/column.py: a scalar ODE  dCg/dz = f(Cg)  (Monod-like *)
(* kinetics) integrated over a 100-point grid by scipy.integrate.odeint    *)
(* and plotted normalised by the initial concentration.                    *)
(*                                                                         *)
(* Arithmetic.  Every number of the script is a binary floating-point      *)
(* number and every operation rounds (to nearest, ties to even).  The      *)
(* model keeps that: a number is  (-1)^neg * sig * 2^exp  with a           *)
(* Precision-bit significand.  Python uses Precision = 53; the model uses  *)
(* a narrower significand so that all intermediate integers fit TLC's      *)
(* 32-bit integers.  The exponent is unbounded: overflow and underflow to  *)
(* subnormals are not modelled (the script's magnitudes stay within        *)
(* 1e-11 .. 1e2).                                                          *)
(*                                                                         *)
(* The solver.  scipy.integrate.odeint is library code.  Its interface is  *)
(* modelled as documented: the first output row is the initial condition,  *)
(* there is one row per grid point, the right-hand side is called back     *)
(* with (y, t), and a failure of LSODA is reported by a warning, not by an *)
(* exception.  Between two grid points the solver's numerics are           *)
(* represented by one step that uses the rate the callback returned,       *)
(* either at the latest value or, after a corrector call, at the           *)
(* predicted next value.                                                   *)
(***************************************************************************)
EXTENDS Integers, Sequences, FiniteSets, TLC

\* Significand width of the modelled floating-point format, in bits.
Precision == 24

\* ------------------------------------------------------------------------
\* Floating-point numbers
\* ------------------------------------------------------------------------

\* A finite number.  err marks the outcome of a division by zero (Python's
\* ZeroDivisionError for scalars, a non-finite value for numpy arrays).
Flt(n, s, e) == [err |-> FALSE, neg |-> n, sig |-> s, exp |-> e]

DivError == [err |-> TRUE, neg |-> FALSE, sig |-> 0, exp |-> 0]

Zero == Flt(FALSE, 0, 0)

IsErr(a) == a.err

IsZero(a) == ~a.err /\ a.sig = 0

RECURSIVE BitLen(_)
BitLen(n) == IF n = 0 THEN 0 ELSE 1 + BitLen(n \div 2)

\* The number nearest to (M + fraction) * 2^e, where the fraction is in
\* (0,1) iff sticky; ties go to the even significand.
Round(n, M, e, sticky) ==
    IF M = 0 THEN Flt(n, 0, 0)
    ELSE LET len == BitLen(M)
         IN  IF len <= Precision
             THEN Flt(n, M * 2^(Precision - len), e - (Precision - len))
             ELSE LET sh   == len - Precision
                      q    == M \div 2^sh
                      r    == M % 2^sh
                      half == 2^(sh - 1)
                      up   == r > half \/ (r = half /\ (sticky \/ q % 2 = 1))
                      q2   == IF up THEN q + 1 ELSE q
                  IN  IF q2 = 2^Precision
                      THEN Flt(n, 2^(Precision - 1), e + sh + 1)
                      ELSE Flt(n, q2, e + sh)

\* An integer literal (exact for |k| < 2^Precision).
FromInt(k) == Round(k < 0, IF k < 0 THEN -k ELSE k, 0, FALSE)

FNeg(a) == IF a.err THEN a ELSE [a EXCEPT !.neg = ~a.neg]

FAbs(a) == IF a.err THEN a ELSE [a EXCEPT !.neg = FALSE]

\* a * 2^k (exact).
Scale(a, k) == IF a.err \/ a.sig = 0 THEN a ELSE [a EXCEPT !.exp = a.exp + k]

\* Half the significand width: significands are multiplied in two limbs.
HalfBits == (Precision + 1) \div 2

FMul(a, b) ==
    IF a.err \/ b.err THEN DivError
    ELSE IF a.sig = 0 \/ b.sig = 0 THEN Flt(a.neg # b.neg, 0, 0)
    ELSE LET B    == 2^HalfBits
             ah   == a.sig \div B
             al   == a.sig % B
             bh   == b.sig \div B
             bl   == b.sig % B
             mid  == ah * bl + al * bh
             low  == (mid % B) * B + al * bl
             hi   == ah * bh + (mid \div B) + (low \div (B * B))
             lo   == low % (B * B)
             \* the product is hi * B^2 + lo; keep three guard bits of lo
             g    == 2 * HalfBits - 3
             M    == hi * 8 + (lo \div 2^g)
         IN  Round(a.neg # b.neg, M, a.exp + b.exp + g, lo % 2^g # 0)

\* k steps of binary long division: <<quotient, remainder>>.
RECURSIVE DivSteps(_, _, _, _)
DivSteps(r, d, k, q) ==
    IF k = 0 THEN <<q, r>>
    ELSE IF 2 * r >= d THEN DivSteps(2 * r - d, d, k - 1, 2 * q + 1)
         ELSE DivSteps(2 * r, d, k - 1, 2 * q)

FDiv(a, b) ==
    IF a.err \/ b.err THEN DivError
    ELSE IF b.sig = 0 THEN DivError
    ELSE IF a.sig = 0 THEN Flt(a.neg # b.neg, 0, 0)
    ELSE LET k  == Precision + 2
             qr == DivSteps(a.sig % b.sig, b.sig, k, a.sig \div b.sig)
         IN  Round(a.neg # b.neg, qr[1], a.exp - b.exp - k, qr[2] # 0)

\* |a| >= |b| in exponent: a.exp >= b.exp, both nonzero.
AddAligned(a, b) ==
    LET d  == a.exp - b.exp
        A  == a.sig * 8
        B  == IF d > Precision + 3 THEN 1
              ELSE LET x == (b.sig * 8) \div 2^d
                   IN  IF (b.sig * 8) % 2^d # 0 /\ x % 2 = 0 THEN x + 1 ELSE x
        S  == (IF a.neg THEN -A ELSE A) + (IF b.neg THEN -B ELSE B)
    IN  IF S = 0 THEN Zero
        ELSE Round(S < 0, IF S < 0 THEN -S ELSE S, a.exp - 3, FALSE)

FAdd(a, b) ==
    IF a.err \/ b.err THEN DivError
    ELSE IF a.sig = 0 /\ b.sig = 0 THEN Flt(a.neg /\ b.neg, 0, 0)
    ELSE IF a.sig = 0 THEN b
    ELSE IF b.sig = 0 THEN a
    ELSE IF a.exp >= b.exp THEN AddAligned(a, b) ELSE AddAligned(b, a)

FSub(a, b) == FAdd(a, FNeg(b))

\* Numerical order of magnitudes (both finite, non-negative).
MagLt(a, b) ==
    IF b.sig = 0 THEN FALSE
    ELSE IF a.sig = 0 THEN TRUE
    ELSE a.exp < b.exp \/ (a.exp = b.exp /\ a.sig < b.sig)

FLt(a, b) ==
    /\ ~a.err /\ ~b.err
    /\ IF a.sig = 0 /\ b.sig = 0 THEN FALSE
       ELSE IF a.neg /\ (b.sig = 0 \/ ~b.neg) THEN a.sig # 0 \/ ~b.neg
       ELSE IF ~a.neg /\ b.neg THEN FALSE
       ELSE IF a.neg /\ b.neg THEN MagLt(b, a)
       ELSE MagLt(a, b)

\* Python's == on numbers: -0.0 == 0.0.
FEq(a, b) ==
    /\ ~a.err /\ ~b.err
    /\ \/ a.sig = 0 /\ b.sig = 0
       \/ a = b

FLe(a, b) == FLt(a, b) \/ FEq(a, b)


\* A decimal literal n/d (d a power of ten), read as Python reads it: the
\* nearest representable number.
Dec(n, d) == FDiv(FromInt(n), FromInt(d))

\* ------------------------------------------------------------------------
\* The program state
\* ------------------------------------------------------------------------

VARIABLES
    alpha, V0, X, Y, mu, K, m, delta,  \* module globals: the parameters
    Cg0,        \* initial condition
    z,          \* integration grid (<<>> until assigned)
    y,          \* solution returned by odeint (<<>> until assigned)
    pc,         \* position of the module's top-level code
    arg,        \* arguments <<Cg, z>> of the latest dCgdz call (<<>>: none yet)
    ret,        \* value the latest dCgdz call returned
    out,        \* odeint's output buffer while it integrates
    corr,       \* the solver has re-evaluated the rate at its prediction
    istate,     \* LSODA's status flag: 1 not started, 2 success, < 0 failure
    warned,     \* odeint issued an ODEintWarning
    line,       \* y-data of the plotted line (<<>>: nothing plotted)
    labels,     \* <<xlabel, ylabel>> of the axes
    window,     \* "none", "open", "closed": the interactive plot window
    stages      \* history: the pipeline stages entered so far, in order

params == <<alpha, V0, X, Y, mu, K, m, delta>>

globals == <<alpha, V0, X, Y, mu, K, m, delta, Cg0, z, y>>

vars == <<alpha, V0, X, Y, mu, K, m, delta, Cg0, z, y, pc, arg, ret, out,
          corr, istate, warned, line, labels, window, stages>>

\* The hard-coded parameter values.
Parameters_KZero ==
    [alpha |-> Dec(9, 10), V0 |-> FromInt(2), X |-> FromInt(2),
     Y |-> FromInt(5), mu |-> FromInt(5), K |-> FromInt(0), m |-> FromInt(1),
     delta |-> Dec(1, 1000)]

Parameters ==
    [alpha |-> Dec(9, 10), V0 |-> FromInt(2), X |-> FromInt(2),
     Y |-> FromInt(5), mu |-> FromInt(5), K |-> FromInt(1), m |-> FromInt(1),
     delta |-> Dec(1, 1000)]

HardCoded ==
    /\ alpha = Parameters.alpha /\ V0 = Parameters.V0 /\ X = Parameters.X
    /\ Y = Parameters.Y /\ mu = Parameters.mu /\ K = Parameters.K
    /\ m = Parameters.m /\ delta = Parameters.delta

\* ------------------------------------------------------------------------
\* The rate function
\* ------------------------------------------------------------------------

\* Mutants of dCgdz (each a plausible slip in the expression).
dCgdz_NoMinus(Cg, zz) ==
    LET t1 == FDiv(alpha, V0)
        t2 == FMul(t1, X)
        t3 == FDiv(t2, Y)
        t4 == FMul(t3, mu)
        t5 == FMul(t4, Cg)
        t6 == FDiv(t5, m)
        t7 == FDiv(t6, FAdd(K, FDiv(Cg, m)))
    IN  FMul(t7, delta)

dCgdz_NoCg(Cg, zz) ==
    LET t1 == FDiv(FNeg(alpha), V0)
        t2 == FMul(t1, X)
        t3 == FDiv(t2, Y)
        t4 == FMul(t3, mu)
        t6 == FDiv(t4, m)
        t7 == FDiv(t6, FAdd(K, FDiv(Cg, m)))
    IN  FMul(t7, delta)

dCgdz_DivGrouped(Cg, zz) ==
    LET t1 == FDiv(FNeg(alpha), V0)
        t2 == FMul(t1, X)
        t3 == FDiv(t2, Y)
        t4 == FMul(t3, mu)
        t5 == FMul(t4, Cg)
        t6 == FDiv(t5, FDiv(m, FAdd(K, FDiv(Cg, m))))
    IN  FMul(t6, delta)

dCgdz_UsesZ(Cg, zz) ==
    LET t1 == FDiv(FNeg(alpha), V0)
        t2 == FMul(t1, X)
        t3 == FDiv(t2, Y)
        t4 == FMul(t3, mu)
        t5 == FMul(t4, Cg)
        t6 == FDiv(t5, m)
        t7 == FDiv(t6, FAdd(K, FDiv(Cg, m)))
    IN  FMul(t7, zz)

\* return -alpha / V0 * X / Y * mu * Cg / m / (K + Cg / m) * delta
\* Python evaluates * and / left to right; unary minus binds to alpha.
dCgdz(Cg, zz) ==
    LET t1 == FDiv(FNeg(alpha), V0)
        t2 == FMul(t1, X)
        t3 == FDiv(t2, Y)
        t4 == FMul(t3, mu)
        t5 == FMul(t4, Cg)
        t6 == FDiv(t5, m)
        t7 == FDiv(t6, FAdd(K, FDiv(Cg, m)))
    IN  FMul(t7, delta)

\* ------------------------------------------------------------------------
\* The grid
\* ------------------------------------------------------------------------

\* Mutant: the endpoint left out (step = (stop - start) / num).
linspace_NoEndpoint(start, stop, num) ==
    LET step == FDiv(FSub(stop, start), FromInt(num))
    IN  [i \in 1..num |-> FAdd(FMul(FromInt(i - 1), step), start)]

\* np.linspace(start, stop, num): arange(num) * step + start with
\* step = (stop - start) / (num - 1), the last point set to stop.
linspace(start, stop, num) ==
    LET step == FDiv(FSub(stop, start), FromInt(num - 1))
    IN  [i \in 1..num |->
            IF i = num THEN stop
            ELSE FAdd(FMul(FromInt(i - 1), step), start)]

\* ------------------------------------------------------------------------
\* The script: module top level, lines 22-32
\* ------------------------------------------------------------------------

\* The state once lines 1-20 have run: parameters and Cg0 assigned, dCgdz
\* defined, nothing computed yet.
Init ==
    /\ alpha = Parameters.alpha /\ V0 = Parameters.V0 /\ X = Parameters.X
    /\ Y = Parameters.Y /\ mu = Parameters.mu /\ K = Parameters.K
    /\ m = Parameters.m /\ delta = Parameters.delta
    /\ Cg0 = Dec(195, 1000000)
    /\ z = <<>> /\ y = <<>>
    /\ pc = "linspace"
    /\ arg = <<>> /\ ret = Zero
    /\ out = <<>> /\ corr = FALSE /\ istate = 1 /\ warned = FALSE
    /\ line = <<>> /\ labels = <<"", "">> /\ window = "none"
    /\ stages = <<>>

\* z = np.linspace(0, 5, 100)
Linspace ==
    /\ pc = "linspace"
    /\ z' = linspace(FromInt(0), FromInt(5), 100)
    /\ pc' = "odeint"
    /\ stages' = Append(stages, "grid")
    /\ UNCHANGED <<params, Cg0, y, arg, ret, out, corr, istate, warned, line,
                   labels, window>>

\* Mutant: the initial condition is not stored as the first output row.
OdeintEnter_SkipsY0 ==
    /\ pc = "odeint"
    /\ out' = <<FMul(Cg0, FromInt(2))>>
    /\ pc' = "func"
    /\ stages' = Append(stages, "integrate")
    /\ UNCHANGED <<globals, arg, ret, corr, istate, warned, line, labels,
                   window>>

\* scipy.integrate.odeint(dCgdz, Cg0, z) is entered: the first output row
\* is the initial condition y0.
OdeintEnter ==
    /\ pc = "odeint"
    /\ out' = <<Cg0>>
    /\ pc' = "func"
    /\ stages' = Append(stages, "integrate")
    /\ UNCHANGED <<globals, arg, ret, corr, istate, warned, line, labels,
                   window>>

\* The solver calls back dCgdz(Cg, z) at the latest output point.
Func ==
    /\ pc = "func"
    /\ LET n == Len(out)
       IN  /\ arg' = <<out[n], z[n]>>
           /\ ret' = dCgdz(out[n], z[n])
    /\ pc' = "advance"
    /\ UNCHANGED <<globals, out, corr, istate, warned, line, labels, window,
                   stages>>

\* The solver may predict the next value with the rate it was given and
\* call dCgdz again there (a predictor-corrector step), once per grid point.
Correct ==
    /\ pc = "advance"
    /\ ~corr
    /\ LET n  == Len(out)
           h  == FSub(z[n + 1], z[n])
           yp == FAdd(out[n], FMul(h, ret))
       IN  /\ arg' = <<yp, z[n + 1]>>
           /\ ret' = dCgdz(yp, z[n + 1])
    /\ corr' = TRUE
    /\ UNCHANGED <<globals, pc, out, istate, warned, line, labels, window,
                   stages>>

\* The solver advances to the next grid point with the rate it was given
\* last and stores the new row; after the last grid point it is done.
Advance ==
    /\ pc = "advance"
    /\ LET n == Len(out)
           h == FSub(z[n + 1], z[n])
       IN  out' = Append(out, FAdd(out[n], FMul(h, ret)))
    /\ corr' = FALSE
    /\ istate' = 2
    /\ pc' = IF Len(out) + 1 = Len(z) THEN "return" ELSE "func"
    /\ UNCHANGED <<globals, arg, ret, warned, line, labels, window, stages>>

\* Rows of the output array that the solver never wrote.
Unwritten == {Zero, FromInt(1), FNeg(FromInt(1))}

\* LSODA gives up at the current output point (istate < 0: excess work,
\* too much accuracy requested, repeated convergence failures, ...).
\* odeint issues an ODEintWarning and returns the array as it is: it
\* raises no exception.
SolverFails ==
    /\ pc = "func"
    /\ \E code \in {-1, -5}, junk \in Unwritten :
          /\ istate' = code
          /\ out' = [i \in 1..Len(z) |-> IF i <= Len(out) THEN out[i] ELSE junk]
    /\ warned' = TRUE
    /\ pc' = "return"
    /\ UNCHANGED <<globals, arg, ret, corr, line, labels, window, stages>>

\* y = <what odeint returns>
OdeintReturn ==
    /\ pc = "return"
    /\ y' = out
    /\ pc' = "plot"
    /\ UNCHANGED <<params, Cg0, z, arg, ret, out, corr, istate, warned, line,
                   labels, window, stages>>

\* plt.plot(z, y / Cg0)
Plot ==
    /\ pc = "plot"
    /\ line' = [i \in 1..Len(y) |-> FDiv(y[i], Cg0)]
    /\ pc' = "xlabel"
    /\ stages' = Append(stages, "plot")
    /\ UNCHANGED <<globals, arg, ret, out, corr, istate, warned, labels,
                   window>>

\* plt.xlabel('z [m]')
XLabel ==
    /\ pc = "xlabel"
    /\ labels' = <<"z [m]", labels[2]>>
    /\ pc' = "ylabel"
    /\ UNCHANGED <<globals, arg, ret, out, corr, istate, warned, line, window,
                   stages>>

\* plt.ylabel('Cg [g/L]')
YLabel ==
    /\ pc = "ylabel"
    /\ labels' = <<labels[1], "Cg [g/L]">>
    /\ pc' = "show"
    /\ UNCHANGED <<globals, arg, ret, out, corr, istate, warned, line, window,
                   stages>>

\* plt.show() opens the window and blocks.
Show ==
    /\ pc = "show"
    /\ window = "none"
    /\ window' = "open"
    /\ UNCHANGED <<globals, pc, arg, ret, out, corr, istate, warned, line,
                   labels, stages>>

\* The user closes the plot window.
CloseWindow ==
    /\ pc = "show"
    /\ window = "open"
    /\ window' = "closed"
    /\ UNCHANGED <<globals, pc, arg, ret, out, corr, istate, warned, line,
                   labels, stages>>

\* Mutant: the script plots again instead of ending.
Exit_Replots ==
    /\ pc = "show"
    /\ window = "closed"
    /\ pc' = "plot"
    /\ stages' = stages
    /\ UNCHANGED <<globals, arg, ret, out, corr, istate, warned, line, labels,
                   window>>

\* plt.show() returns; it is the last statement: the process exits.
Exit ==
    /\ pc = "show"
    /\ window = "closed"
    /\ pc' = "exit"
    /\ stages' = Append(stages, "exit")
    /\ UNCHANGED <<globals, arg, ret, out, corr, istate, warned, line, labels,
                   window>>

Next ==
    \/ Linspace
    \/ OdeintEnter
    \/ Func
    \/ Correct
    \/ Advance
    \/ OdeintReturn
    \/ Plot
    \/ XLabel
    \/ YLabel
    \/ Show
    \/ CloseWindow
    \/ Exit

\* The run of the script as written.
Spec == Init /\ [][Next]_vars

\* The same run; once plt.show() has returned the interpreter goes on to
\* the end of the file.
LiveSpec == Init /\ [][Next]_vars /\ WF_vars(Exit)

\* The run with a solver that may fail.
FaultNext == Next \/ SolverFails

FaultSpec == Init /\ [][FaultNext]_vars

\* ------------------------------------------------------------------------
\* The rate function on its own, for arbitrary parameters and arguments
\* ------------------------------------------------------------------------

CgSamples ==
    {Zero, Dec(195, 1000000), FromInt(1), Dec(1, 2), FromInt(3),
     FNeg(FromInt(1))}

ZSamples == {FromInt(0), Dec(5, 2), FromInt(5)}

RateInit ==
    /\ alpha \in {Parameters.alpha, FromInt(3)}
    /\ V0 \in {Parameters.V0, FromInt(3)}
    /\ X = Parameters.X
    /\ Y \in {Parameters.Y, FromInt(7)}
    /\ mu = Parameters.mu
    /\ K \in {Parameters.K, FromInt(0)}
    /\ m \in {Parameters.m, FromInt(3)}
    /\ delta \in {Parameters.delta, FromInt(1)}
    /\ Cg0 = Dec(195, 1000000)
    /\ z = <<>> /\ y = <<>>
    /\ pc = "call"
    /\ arg = <<>> /\ ret = Zero
    /\ out = <<>> /\ corr = FALSE /\ istate = 1 /\ warned = FALSE
    /\ line = <<>> /\ labels = <<"", "">> /\ window = "none"
    /\ stages = <<>>

\* One call dCgdz(Cg, z).
RateCall ==
    /\ pc = "call"
    /\ \E c \in CgSamples, zz \in ZSamples :
          /\ arg' = <<c, zz>>
          /\ ret' = dCgdz(c, zz)
    /\ UNCHANGED <<globals, pc, out, corr, istate, warned, line, labels, window,
                   stages>>

RateSpec == RateInit /\ [][RateCall]_vars

\* ------------------------------------------------------------------------
\* Properties
\* ------------------------------------------------------------------------

Called == arg # <<>>

\* The rate as the specification groups it:
\*   -(alpha/V0) * (X/Y) * mu * (Cg/m) / (K + Cg/m) * delta
Grouped(Cg) ==
    LET a == FDiv(alpha, V0)
        b == FDiv(X, Y)
        c == FDiv(Cg, m)
    IN  FMul(FDiv(FMul(FMul(FMul(FNeg(a), b), mu), c), FAdd(K, FDiv(Cg, m))),
             delta)

\* |a - b| <= 2^k * |b|
Close(a, b, k) == FLe(FAbs(FSub(a, b)), Scale(FAbs(b), k))

\* C1 as stated: wherever it is defined, dCgdz returns exactly the value of
\* the grouped formula, for all parameter values.
C1_ExactlyGrouped ==
    (Called /\ ~IsErr(ret)) => FEq(ret, Grouped(arg[1]))

\* C1 amended: dCgdz is defined exactly where the grouped formula is, and
\* where defined the two values agree up to the rounding of the sixteen
\* operations involved: their difference is at most 2^(5 - Precision) times
\* the magnitude of the grouped value (so they have the same sign and are
\* zero together).
C1_GroupedUpToRounding ==
    Called =>
        /\ IsErr(ret) <=> IsErr(Grouped(arg[1]))
        /\ ~IsErr(ret) => Close(ret, Grouped(arg[1]), 5 - Precision)

\* A call at Cg = Cg0 that returned a nonzero number which is not the
\* grouped value, yet within rounding of it.
C1_RoundingDiffers ==
    /\ Called /\ arg[1] = Cg0
    /\ ~IsErr(ret) /\ ~IsZero(ret)
    /\ ~FEq(ret, Grouped(arg[1]))
    /\ Close(ret, Grouped(arg[1]), 5 - Precision)

C3_FailFast ==
    istate < 0 => (warned /\ pc = "return" /\ line = <<>>)

\* C4: with the script's parameters (K = 1, m = 1) and any Cg >= 0, the
\* divisors m and K + Cg/m are nonzero and dCgdz hits no division by zero.
C4_NoDivisionError ==
    (Called /\ HardCoded /\ FLe(Zero, arg[1])) =>
        /\ ~IsZero(m)
        /\ ~IsZero(FAdd(K, FDiv(arg[1], m)))
        /\ ~IsErr(ret)

\* dCgdz was called at Cg = 0 with the script's parameters and returned.
C4_CalledAtZero ==
    Called /\ HardCoded /\ IsZero(arg[1]) /\ ~IsErr(ret)

\* C5: with the script's parameters, dCgdz(0, z) is zero for every z.
C5_ZeroAtZero ==
    (Called /\ HardCoded /\ IsZero(arg[1])) => IsZero(ret)

\* dCgdz(0, 5) was evaluated with the script's parameters and gave zero.
C5_ZeroAtZeroSeen ==
    Called /\ HardCoded /\ IsZero(arg[1]) /\ arg[2] = FromInt(5) /\ IsZero(ret)

\* C6: the first solution value is Cg0 itself, and the plotted normalised
\* curve has the value 1.0 at the first grid point, z = 0.
C6_StartsAtCg0 ==
    /\ Len(y) > 0 => y[1] = Cg0
    /\ Len(line) > 0 => (line[1] = FromInt(1) /\ IsZero(z[1]))

\* The curve has been plotted from the returned solution.
C6_Plotted ==
    Len(y) = 100 /\ Len(line) = 100 /\ y[1] = Cg0 /\ line[1] = FromInt(1)

\* Consecutive grid points are one step (5/99) apart, up to the rounding of
\* the grid's own values.
EvenlySpaced ==
    \A i \in 1..(Len(z) - 1) :
        Close(FSub(z[i + 1], z[i]), FDiv(FromInt(5), FromInt(99)),
              9 - Precision)

\* C7: the grid is 100 evenly spaced values from 0 to 5 inclusive, and the
\* solution has exactly one value per grid point.
C7_OnePerGridPoint ==
    /\ Len(z) > 0 =>
          /\ Len(z) = 100
          /\ IsZero(z[1])
          /\ z[100] = FromInt(5)
          /\ EvenlySpaced
    /\ Len(y) > 0 => Len(y) = Len(z)

\* odeint has returned a solution over the whole grid.
C7_Returned ==
    Len(z) = 100 /\ Len(y) = 100 /\ pc = "plot"

C9_Pure ==
    [][ (<<arg, ret>>' # <<arg, ret>>) =>
            /\ UNCHANGED globals
            /\ \A z1 \in ZSamples : ret' = dCgdz(arg'[1], z1) ]_vars

\* dCgdz was called away from z = 0 and returned a nonzero rate.
C9_CalledOffOrigin ==
    Called /\ arg[2] = FromInt(5) /\ ~IsErr(ret) /\ ~IsZero(ret)

Pipeline == <<"grid", "integrate", "plot", "exit">>

IsPrefix(s, t) == Len(s) <= Len(t) /\ \A i \in 1..Len(s) : s[i] = t[i]

\* C10: the stages are entered once each, in the order grid, integrate,
\* plot, exit; integration starts only when the grid exists, plotting only
\* when the solution exists; once the window is closed the process
\* eventually exits.
C10_Pipeline ==
    /\ [](IsPrefix(stages, Pipeline))
    /\ [](Len(stages) >= 2 => Len(z) = 100)
    /\ [](Len(stages) >= 3 => (Len(y) = 100 /\ Len(y) = Len(z)))
    /\ (window = "closed") ~> (pc = "exit" /\ stages = Pipeline)

\* The process has exited after the whole pipeline.
C10_Exited ==
    pc = "exit" /\ stages = Pipeline /\ window = "closed"

=============================================================================
